---------------------------- MODULE Spec2Model ----------------------------
(***************************************************************************)
(* Model of flowreg_hooks.check_readme_images: the README image-link       *)
(* normaliser (two regular-expression substitution passes over a           *)
(* document), the per-file driver process_file, the repository locator     *)
(* get_git_info and the command-line entry point main.                     *)
(*                                                                         *)
(* Text is a sequence of one-character strings, so that the regular        *)
(* expressions, str.startswith, str.endswith, str.lower and str.lstrip are *)
(* computed character by character as Python computes them.                *)
(***************************************************************************)
EXTENDS Integers, Sequences, FiniteSets, TLC

VARIABLES
    \* ---- normalize_image_urls exercised as a pure function (SpecNorm)
    content,      \* the text the next call of normalize_image_urls receives
    orig,         \* the text the first call received
    md_out,       \* content after the Markdown re.sub of the last call
    prev,         \* the argument of the last call
    applied,      \* number of calls made so far
    norm_base,    \* base_url of the calls
    \* ---- one run of main (Spec)
    remote,       \* output of `git config --get remote.origin.url`, or NoRemote
    has_head,     \* whether `git rev-parse HEAD` succeeds
    ref_arg,      \* --ref argument, or NoRef
    filenames,    \* args.filenames
    check_only,   \* args.check_only
    disk,         \* file name -> content, or Missing
    disk0,        \* disk when main started
    pc,           \* "git" | "loop" | "done"
    git_result,   \* outcome of get_git_info()
    base_url,     \* base_url built by main
    idx,          \* position in filenames of the next file
    any_changes,  \* main's any_changes
    flags,        \* process_file's return value, per position processed
    io_log,       \* the I/O outcome met at each position processed
    seen,         \* the content process_file found on disk, per position
    rc            \* main's return value, or NoRc

normVars == <<content, orig, md_out, prev, applied, norm_base>>
mainVars == <<remote, has_head, ref_arg, filenames, check_only, disk, disk0, pc,
              git_result, base_url, idx, any_changes, flags, io_log, seen, rc>>
vars == <<normVars, mainVars>>

----------------------------------------------------------------------------
(* Python str primitives                                                   *)

\* s.startswith(p)
StartsWith(s, p) == Len(s) >= Len(p) /\ SubSeq(s, 1, Len(p)) = p

\* s[i-1:].startswith(p), with i a 1-based index
StartsWithAt(s, i, p) == i + Len(p) - 1 <= Len(s) /\ SubSeq(s, i, i + Len(p) - 1) = p

\* s.endswith(p)
EndsWith(s, p) == Len(s) >= Len(p) /\ SubSeq(s, Len(s) - Len(p) + 1, Len(s)) = p

\* one character of str.lower()
LowerChar(c) ==
    CASE c = "A" -> "a" [] c = "B" -> "b" [] c = "C" -> "c" [] c = "D" -> "d"
      [] c = "E" -> "e" [] c = "F" -> "f" [] c = "G" -> "g" [] c = "H" -> "h"
      [] c = "I" -> "i" [] c = "J" -> "j" [] c = "K" -> "k" [] c = "L" -> "l"
      [] c = "M" -> "m" [] c = "N" -> "n" [] c = "O" -> "o" [] c = "P" -> "p"
      [] c = "Q" -> "q" [] c = "R" -> "r" [] c = "S" -> "s" [] c = "T" -> "t"
      [] c = "U" -> "u" [] c = "V" -> "v" [] c = "W" -> "w" [] c = "X" -> "x"
      [] c = "Y" -> "y" [] c = "Z" -> "z" [] OTHER -> c

\* s.lower()
Lower(s) == [i \in 1..Len(s) |-> LowerChar(s[i])]

\* the characters the regular expressions' \s matches
Whitespace == {" ", "\t", "\n", "\r"}

\* least k >= from with s[k] = c, 0 when there is none (a negated character class
\* [^c]* or [^c]+ runs exactly to that place)
RECURSIVE FirstIndex(_, _, _)
FirstIndex(s, c, from) ==
    IF from > Len(s) THEN 0
    ELSE IF s[from] = c THEN from
    ELSE FirstIndex(s, c, from + 1)

\* s.lstrip(chars): the index of the first character not in chars
RECURSIVE LStripFrom(_, _, _)
LStripFrom(s, chars, i) ==
    IF i > Len(s) THEN <<>>
    ELSE IF s[i] \in chars THEN LStripFrom(s, chars, i + 1)
    ELSE SubSeq(s, i, Len(s))

LStrip(s, chars) == LStripFrom(s, chars, 1)

----------------------------------------------------------------------------
(* normalize_image_urls                                                    *)

HttpPrefix  == <<"h","t","t","p",":","/","/">>
HttpsPrefix == <<"h","t","t","p","s",":","/","/">>

ALLOWED_EXTENSIONS ==
    { <<".","p","n","g">>, <<".","j","p","g">>, <<".","j","p","e","g">>,
      <<".","g","i","f">>, <<".","s","v","g">> }

\* is_allowed_image with str.lower() left out
is_allowed_image_CaseSensitive(path) ==
    \E ext \in ALLOWED_EXTENSIONS : EndsWith(path, ext)

is_allowed_image(path) ==
    \E ext \in ALLOWED_EXTENSIONS : EndsWith(Lower(path), ext)

\* url.startswith(("http://", "https://"))
IsHttpUrl(url) == StartsWith(url, HttpPrefix) \/ StartsWith(url, HttpsPrefix)

normalize_path(path) ==
    IF IsHttpUrl(path) THEN path
    ELSE LStrip(path, {".", "/"})

\* The replacement callback of the Markdown pass, given the three groups.
replace_markdown(prefix, url, suffix, base) ==
    IF IsHttpUrl(url) THEN prefix \o url \o suffix
    ELSE IF ~is_allowed_image(url) THEN prefix \o url \o suffix
    ELSE prefix \o base \o normalize_path(url) \o suffix

\* The replacement callback of the HTML pass, given the three groups.
replace_html(prefix, url, suffix, base) ==
    IF IsHttpUrl(url) THEN prefix \o url \o suffix
    ELSE IF ~is_allowed_image(url) THEN prefix \o url \o suffix
    ELSE prefix \o base \o normalize_path(url) \o suffix

(* (!\[[^\]]*\]\()((?!https?://)[^)]+)(\)) tried at position i.  [^\]]* ends  *)
(* at the first "]", which "(" must follow; the lookahead rejects http:// and *)
(* https://; [^)]+ ends at the first ")", and must not be empty.  The match   *)
(* is <<j, k>>: j the index of "]", k the index of the closing ")"; <<0, 0>>  *)
(* when the expression does not match at i.                                   *)
MdMatchAt(s, i) ==
    IF s[i] # "!" \/ i + 1 > Len(s) \/ s[i + 1] # "[" THEN <<0, 0>>
    ELSE LET j == FirstIndex(s, "]", i + 2) IN
         IF j = 0 \/ j + 1 > Len(s) \/ s[j + 1] # "(" THEN <<0, 0>>
         ELSE IF StartsWithAt(s, j + 2, HttpPrefix)
                 \/ StartsWithAt(s, j + 2, HttpsPrefix) THEN <<0, 0>>
         ELSE LET k == FirstIndex(s, ")", j + 2) IN
              IF k = 0 \/ k = j + 2 THEN <<0, 0>>
              ELSE <<j, k>>

\* re.sub of the Markdown expression over s[pos..]: leftmost match first,
\* the scan resuming after each match (i is the place tried next).
RECURSIVE MdSub(_, _, _, _)
MdSub(s, pos, i, base) ==
    IF i > Len(s) THEN SubSeq(s, pos, Len(s))
    ELSE LET m == MdMatchAt(s, i) IN
         IF m[1] = 0 THEN MdSub(s, pos, i + 1, base)
         ELSE SubSeq(s, pos, i - 1)
              \o replace_markdown(SubSeq(s, i, m[1] + 1),
                                  SubSeq(s, m[1] + 2, m[2] - 1),
                                  <<")">>, base)
              \o MdSub(s, m[2] + 1, m[2] + 1, base)

(* (<img\s+[^>]*src=")([^"]+)("[^>]*>) with re.IGNORECASE tried at position i. *)
(* The prefix group is greedy, so of the places p where src=" stands with no   *)
(* ">" between the tag's start and p, the last one for which the rest matches  *)
(* is taken: [^"]+ ends at the first quote q (and is not empty), and [^>]*>    *)
(* ends at the first ">" r after it.  The match is <<p, q, r>>, or <<0,0,0>>.  *)
ImgTag  == <<"<","i","m","g">>
SrcAttr == <<"s","r","c","=","\"">>

\* s[i-1:i-1+len(p)].lower() == p
StartsWithAtIgnoreCase(s, i, p) ==
    i + Len(p) - 1 <= Len(s) /\ Lower(SubSeq(s, i, i + Len(p) - 1)) = p

HtmlRest(s, p) ==
    LET q == FirstIndex(s, "\"", p + 5) IN
    IF q = 0 \/ q = p + 5 THEN <<0, 0, 0>>
    ELSE LET r == FirstIndex(s, ">", q + 1) IN
         IF r = 0 THEN <<0, 0, 0>> ELSE <<p, q, r>>

\* whether src=" stands at p and the rest of the expression matches after it
HtmlTry(s, p) ==
    IF p + 4 <= Len(s) /\ s[p + 3] = "=" /\ StartsWithAtIgnoreCase(s, p, SrcAttr)
    THEN HtmlRest(s, p)
    ELSE <<0, 0, 0>>

\* the candidates for p between lo and hi, tried from the last to the first
RECURSIVE HtmlPick(_, _, _)
HtmlPick(s, lo, hi) ==
    IF hi < lo THEN <<0, 0, 0>>
    ELSE LET m == HtmlTry(s, hi) IN
         IF m[1] # 0 THEN m ELSE HtmlPick(s, lo, hi - 1)

HtmlMatchAt(s, i) ==
    IF s[i] # "<" \/ ~StartsWithAtIgnoreCase(s, i, ImgTag) THEN <<0, 0, 0>>
    ELSE IF i + 4 > Len(s) \/ s[i + 4] \notin Whitespace THEN <<0, 0, 0>>
    ELSE LET gt == FirstIndex(s, ">", i + 4) IN
         IF gt = 0 THEN <<0, 0, 0>> ELSE HtmlPick(s, i + 5, gt - 5)

\* re.sub of the HTML expression over s[pos..]
RECURSIVE HtmlSub(_, _, _, _)
HtmlSub(s, pos, i, base) ==
    IF i > Len(s) THEN SubSeq(s, pos, Len(s))
    ELSE LET m == HtmlMatchAt(s, i) IN
         IF m[1] = 0 THEN HtmlSub(s, pos, i + 1, base)
         ELSE SubSeq(s, pos, i - 1)
              \o replace_html(SubSeq(s, i, m[1] + 4),
                              SubSeq(s, m[1] + 5, m[2] - 1),
                              SubSeq(s, m[2], m[3]), base)
              \o HtmlSub(s, m[3] + 1, m[3] + 1, base)

\* content = re.sub(<Markdown expression>, replace_markdown, content)
MarkdownPass(text, base) == MdSub(text, 1, 1, base)

\* content = re.sub(<HTML expression>, replace_html, content, flags=re.IGNORECASE)
HtmlPass(text, base) == HtmlSub(text, 1, 1, base)

normalize_image_urls(text, base) == HtmlPass(MarkdownPass(text, base), base)

----------------------------------------------------------------------------
(* Values standing for "absent"                                            *)

NoRemote == <<"<", "no remote", ">">>
NoRef    == <<"<", "no ref", ">">>
Missing  == <<"<", "missing", ">">>
NoRc     == 0 - 1
NoText   == <<>>

\* f"https://raw.githubusercontent.com/{repo_path}/{ref}/"
RawHost ==
    <<"h","t","t","p","s",":","/","/","r","a","w",".","g","i","t","h","u","b",
      "u","s","e","r","c","o","n","t","e","n","t",".","c","o","m","/">>

BaseUrlOf(repo_path, ref) == RawHost \o repo_path \o <<"/">> \o ref \o <<"/">>

----------------------------------------------------------------------------
(* Documents: concatenations of at most MaxSegs pieces of image markup     *)

MaxSegs == 4

MdOpen    == <<"!","[","a","]","(">>
MdClose   == <<")">>
ImgOpen   == <<"<","i","m","g"," ","s","r","c","=","\"">>
ImgClose  == <<"\"",">">>
ImgClose2 == <<"\""," ","d","a","t","a","-","s","r","c","=","\"","y",".","g","i","f","\"",">">>
FilePng   == <<"x",".","p","n","g">>
FileJpg   == <<".",".","/","y",".","J","P","G">>
FileTxt   == <<"z",".","t","x","t">>
FtpPrefix == <<"f","t","p",":","/","/">>

Segments ==
    { MdOpen, MdClose, ImgOpen, ImgClose, ImgClose2, FilePng, FileJpg, FileTxt,
      HttpPrefix, HttpsPrefix, FtpPrefix }

RECURSIVE Flatten(_)
Flatten(segs) == IF segs = <<>> THEN <<>> ELSE Head(segs) \o Flatten(Tail(segs))

\* the base URL main builds for github.com/o/r at revision s
NormBase == BaseUrlOf(<<"o","/","r">>, <<"s">>)

----------------------------------------------------------------------------
(* get_git_info                                                            *)

GithubHost == <<"g","i","t","h","u","b",".","c","o","m">>
DotGit     == <<".","g","i","t">>

(* re.search(r"github\.com[:/](.+?)(?:\.git)?$", remote_url), group 1, or   *)
(* <<>> when there is no match.  The search takes the leftmost place where  *)
(* github.com and ":" or "/" stand with at least one character after them;  *)
(* the lazy group then stops before a final ".git" when one ends the URL.   *)
RECURSIVE ParseRepoFrom(_, _)
ParseRepoFrom(url, i) ==
    IF i + Len(GithubHost) + 1 > Len(url) THEN <<>>
    ELSE IF StartsWithAt(url, i, GithubHost) /\ url[i + Len(GithubHost)] \in {":", "/"}
    THEN LET rest == SubSeq(url, i + Len(GithubHost) + 1, Len(url)) IN
         IF EndsWith(rest, DotGit) /\ Len(rest) > Len(DotGit)
         THEN SubSeq(rest, 1, Len(rest) - Len(DotGit))
         ELSE rest
    ELSE ParseRepoFrom(url, i + 1)

ParseRepo(url) == ParseRepoFrom(url, 1)

\* the commit `git rev-parse HEAD` prints
HeadSha == <<"s">>

Raised   == [kind |-> "raise",  repo |-> NoText, sha |-> NoText]
Pending  == [kind |-> "pending", repo |-> NoText, sha |-> NoText]
RetNone  == [kind |-> "none",   repo |-> NoText, sha |-> NoText]
RetTuple(repo, sha) == [kind |-> "tuple", repo |-> repo, sha |-> sha]

(* get_git_info: `git config --get remote.origin.url` exits non-zero when   *)
(* no origin is configured and `git rev-parse HEAD` when there is no commit *)
(* (check=True: CalledProcessError, re-raised as RuntimeError); a remote    *)
(* the expression does not match raises RuntimeError directly.              *)
get_git_info(url, head) ==
    IF url = NoRemote THEN Raised
    ELSE IF ParseRepo(url) = <<>> THEN Raised
    ELSE IF ~head THEN Raised
    ELSE RetTuple(ParseRepo(url), HeadSha)

----------------------------------------------------------------------------
(* process_file                                                            *)

(* What the file system does during one call: every read and write works   *)
(* ("ok"), read_text raises ("read_error"), write_text raises in open()    *)
(* with the file untouched ("open_error"), or write_text raises after      *)
(* open(mode="w") has truncated the file ("write_error": of the prefixes   *)
(* of the text that may then be on disk, the empty one).                   *)
IOOutcomes == {"ok", "read_error", "open_error", "write_error"}

WriteFailures == {"open_error", "write_error"}

\* the file's content after a write_text(new) that raised
AfterFailedWrite(old, new, io) ==
    IF io = "open_error" THEN old ELSE NoText

Result(ret, after) == [ret |-> ret, disk |-> after]

\* process_file writing in check-only mode too
process_file_IgnoresCheckOnly(cur, base, chk, io) ==
    IF cur = Missing THEN Result(FALSE, cur)
    ELSE IF io = "read_error" THEN Result(FALSE, cur)
    ELSE LET new == normalize_image_urls(cur, base) IN
         IF new = cur THEN Result(FALSE, cur)
         ELSE IF io \in WriteFailures THEN Result(FALSE, AfterFailedWrite(cur, new, io))
         ELSE Result(TRUE, new)

\* process_file returning True from its write-error handler
process_file_WriteErrorTrue(cur, base, chk, io) ==
    IF cur = Missing THEN Result(FALSE, cur)
    ELSE IF io = "read_error" THEN Result(FALSE, cur)
    ELSE LET new == normalize_image_urls(cur, base) IN
         IF new = cur THEN Result(FALSE, cur)
         ELSE IF chk THEN Result(TRUE, cur)
         ELSE IF io \in WriteFailures THEN Result(TRUE, AfterFailedWrite(cur, new, io))
         ELSE Result(TRUE, new)

(* process_file(filepath, base_url, check_only) on a file whose content on  *)
(* disk is cur (Missing: filepath.exists() is false): the value returned    *)
(* and the file's content afterwards.                                       *)
process_file(cur, base, chk, io) ==
    IF cur = Missing THEN Result(FALSE, cur)
    ELSE IF io = "read_error" THEN Result(FALSE, cur)
    ELSE LET new == normalize_image_urls(cur, base) IN
         IF new = cur THEN Result(FALSE, cur)
         ELSE IF chk THEN Result(TRUE, cur)
         ELSE IF io \in WriteFailures THEN Result(FALSE, AfterFailedWrite(cur, new, io))
         ELSE Result(TRUE, new)

----------------------------------------------------------------------------
(* main                                                                    *)

MaxFiles == 2

FileNames == {"README.md", "docs/index.md"}

RemoteHttps  == <<"h","t","t","p","s",":","/","/">> \o GithubHost \o <<"/","o","/","r",".","g","i","t">>
RemoteSsh    == <<"g","i","t","@">> \o GithubHost \o <<":","o","/","r">>
RemoteGitlab == <<"h","t","t","p","s",":","/","/","g","i","t","l","a","b",".","c","o","m","/","o","/","r",".","g","i","t">>

Remotes == {NoRemote, RemoteHttps, RemoteSsh, RemoteGitlab}

RefArgs == {NoRef, <<"v","1">>}

DocRelative   == MdOpen \o FilePng \o MdClose
DocNormalized == MdOpen \o NormBase \o FilePng \o MdClose
DocHtml       == ImgOpen \o FileJpg \o ImgClose

Contents == {DocRelative, DocNormalized, DocHtml}

NormIdle ==
    /\ content = NoText /\ orig = NoText /\ md_out = NoText /\ prev = NoText
    /\ applied = 0 /\ norm_base = NoText

Init ==
    /\ remote \in Remotes
    /\ has_head \in BOOLEAN
    /\ ref_arg \in RefArgs
    /\ \E n \in 1..MaxFiles : filenames \in [1..n -> FileNames]
    /\ check_only \in BOOLEAN
    /\ disk \in [FileNames -> Contents \cup {Missing}]
    /\ disk0 = disk
    /\ pc = "git"
    /\ git_result = Pending
    /\ base_url = NoText
    /\ idx = 0
    /\ any_changes = FALSE
    /\ flags = <<>>
    /\ io_log = <<>>
    /\ seen = <<>>
    /\ rc = NoRc
    /\ NormIdle

\* main, lines 211-224: the locator is asked once; on RuntimeError main returns 1,
\* otherwise base_url is built from the repository and --ref or the commit.
MainLocate ==
    /\ pc = "git"
    /\ LET r == get_git_info(remote, has_head) IN
       /\ git_result' = r
       /\ IF r.kind = "raise"
          THEN /\ rc' = 1
               /\ pc' = "done"
               /\ UNCHANGED <<base_url, idx>>
          ELSE /\ base_url' = BaseUrlOf(r.repo, IF ref_arg = NoRef \/ ref_arg = NoText
                                                THEN r.sha ELSE ref_arg)
               /\ idx' = 1
               /\ pc' = "loop"
               /\ UNCHANGED rc
    /\ UNCHANGED <<remote, has_head, ref_arg, filenames, check_only, disk, disk0,
                   any_changes, flags, io_log, seen, normVars>>

\* main, lines 225-228: one iteration of the loop over args.filenames
MainProcess ==
    /\ pc = "loop"
    /\ idx <= Len(filenames)
    /\ \E io \in IOOutcomes :
         LET f == filenames[idx]
             r == process_file(disk[f], base_url, check_only, io)
         IN  /\ disk' = [disk EXCEPT ![f] = r.disk]
             /\ any_changes' = (any_changes \/ r.ret)
             /\ flags' = Append(flags, r.ret)
             /\ io_log' = Append(io_log, io)
             /\ seen' = Append(seen, disk[f])
    /\ idx' = idx + 1
    /\ UNCHANGED <<remote, has_head, ref_arg, filenames, check_only, disk0, pc,
                   git_result, base_url, rc, normVars>>

\* main, line 231
MainReturn ==
    /\ pc = "loop"
    /\ idx > Len(filenames)
    /\ rc' = (IF any_changes THEN 1 ELSE 0)
    /\ pc' = "done"
    /\ UNCHANGED <<remote, has_head, ref_arg, filenames, check_only, disk, disk0,
                   git_result, base_url, idx, any_changes, flags, io_log, seen, normVars>>

Next == MainLocate \/ MainProcess \/ MainReturn

Spec == Init /\ [][Next]_vars

MainIdle ==
    /\ remote = NoRemote /\ has_head = FALSE /\ ref_arg = NoRef
    /\ filenames = <<>> /\ check_only = FALSE
    /\ disk = [f \in FileNames |-> Missing] /\ disk0 = disk
    /\ pc = "idle" /\ git_result = Pending
    /\ base_url = NoText /\ idx = 0 /\ any_changes = FALSE
    /\ flags = <<>> /\ io_log = <<>> /\ seen = <<>> /\ rc = NoRc

----------------------------------------------------------------------------
(* SpecNorm: normalize_image_urls applied to a document, and to its result *)

InitNorm ==
    /\ \E n \in 0..MaxSegs : \E segs \in [1..n -> Segments] : content = Flatten(segs)
    /\ orig = content
    /\ md_out = NoText
    /\ prev = NoText
    /\ applied = 0
    /\ norm_base = NormBase
    /\ MainIdle

\* content = normalize_image_urls(content, base_url), called at most twice
Normalize ==
    /\ applied < 2
    /\ LET md == MarkdownPass(content, norm_base) IN
       /\ md_out' = md
       /\ content' = HtmlPass(md, norm_base)
    /\ prev' = content
    /\ applied' = applied + 1
    /\ UNCHANGED <<orig, norm_base, mainVars>>

NextNorm == Normalize

SpecNorm == InitNorm /\ [][NextNorm]_vars

----------------------------------------------------------------------------
(* Vocabulary of the properties                                            *)

Letters ==
    {"a","b","c","d","e","f","g","h","i","j","k","l","m","n","o","p","q","r","s",
     "t","u","v","w","x","y","z","A","B","C","D","E","F","G","H","I","J","K","L",
     "M","N","O","P","Q","R","S","T","U","V","W","X","Y","Z"}

\* the path starts with a transport scheme: letters, then "://"
IsAbsoluteUrl(path) ==
    \E n \in 1..Len(path) :
        /\ \A i \in 1..n : path[i] \in Letters
        /\ StartsWithAt(path, n + 1, <<":","/","/">>)

\* the path ends with an allowed image extension, whatever the case of its letters
EndsWithImageExtension(path) ==
    \E ext \in ALLOWED_EXTENSIONS :
        /\ Len(path) >= Len(ext)
        /\ \A i \in 1..Len(ext) : LowerChar(path[Len(path) - Len(ext) + i]) = ext[i]

\* the path without its leading "." and "/" characters
WithoutLeadingDotsAndSlashes(path) ==
    LET keep == {i \in 1..Len(path) : path[i] \notin {".", "/"}} IN
    IF keep = {} THEN <<>>
    ELSE SubSeq(path, CHOOSE i \in keep : \A j \in keep : i <= j, Len(path))

\* the document is one Markdown image reference ![alt](path): no "]" in alt,
\* no ")" in path, path not empty
IsMdRef(doc) ==
    /\ StartsWith(doc, <<"!","[">>)
    /\ LET j == FirstIndex(doc, "]", 3) IN
       /\ j # 0
       /\ Len(doc) >= j + 3
       /\ doc[j + 1] = "("
       /\ FirstIndex(doc, ")", j + 2) = Len(doc)

MdPrefixOf(doc) == SubSeq(doc, 1, FirstIndex(doc, "]", 3) + 1)
MdPathOf(doc)   == SubSeq(doc, FirstIndex(doc, "]", 3) + 2, Len(doc) - 1)

\* the document is one img tag <img src="path"...> whose src attribute comes
\* first: the path is free of quotes, brackets and parentheses, and the rest of the
\* tag is its end, or a further attribute and its end
ImgRestOf(doc) == SubSeq(doc, FirstIndex(doc, "\"", Len(ImgOpen) + 1), Len(doc))
ImgPathOf(doc) == SubSeq(doc, Len(ImgOpen) + 1, FirstIndex(doc, "\"", Len(ImgOpen) + 1) - 1)

IsImgTag(doc) ==
    /\ StartsWith(doc, ImgOpen)
    /\ FirstIndex(doc, "\"", Len(ImgOpen) + 1) > Len(ImgOpen) + 1
    /\ ImgRestOf(doc) \in {ImgClose, ImgClose2}
    /\ \A i \in 1..Len(ImgPathOf(doc)) : ImgPathOf(doc)[i] \notin {"<", ">", "(", ")", "!"}

\* what the Markdown rule makes of a path: as ![a](path) is rewritten
AsInMarkdown(path, base) ==
    LET out == MarkdownPass(MdOpen \o path \o MdClose, base) IN
    SubSeq(out, Len(MdOpen) + 1, Len(out) - 1)

\* process_file at position k met a missing file, a failed read or a failed write
WriteFailedAt(k) ==
    /\ ~check_only
    /\ seen[k] # Missing
    /\ io_log[k] \in WriteFailures
    /\ normalize_image_urls(seen[k], base_url) # seen[k]

FailedAt(k) == seen[k] = Missing \/ io_log[k] = "read_error" \/ WriteFailedAt(k)

\* the file at position k was read and its normalized content differs
NeedsChangeAt(k) ==
    /\ seen[k] # Missing
    /\ io_log[k] # "read_error"
    /\ normalize_image_urls(seen[k], base_url) # seen[k]

Processed == 1..Len(flags)

FirstOccurrence(j) == \A i \in 1..(j - 1) : filenames[i] # filenames[j]

----------------------------------------------------------------------------
(* Properties of normalize_image_urls (SpecNorm)                           *)

\* C1: normalize_image_urls is idempotent: applied to its own result, with the same
\* base URL, it returns that result unchanged, for every document.
C1_Idempotent == applied = 2 => content = prev

\* C7: an image reference, a Markdown one or an img tag with its src alone, whose
\* path is an absolute URL of any transport scheme is left as it is.
C7_AbsoluteAnySchemeKept ==
    (applied = 1 /\ (\/ IsMdRef(orig) /\ IsAbsoluteUrl(MdPathOf(orig))
                     \/ IsImgTag(orig) /\ ImgRestOf(orig) = ImgClose
                        /\ IsAbsoluteUrl(ImgPathOf(orig))))
        => content = orig

\* C8: a Markdown image reference with a relative path is rewritten by the Markdown
\* rule if and only if the path ends, in any letter case, with an allowed image
\* extension; rewritten, it is its prefix ![alt]( then the base URL, the path without
\* its leading "." and "/" characters, and ")"; otherwise it is unchanged.  (A path
\* holding no "<" is out of the HTML rule's reach, and the result stands.)
C8_MarkdownRelativeRewritten ==
    (applied = 1 /\ IsMdRef(orig) /\ ~IsAbsoluteUrl(MdPathOf(orig))) =>
        LET path == MdPathOf(orig) IN
        /\ md_out = IF EndsWithImageExtension(path)
                    THEN MdPrefixOf(orig) \o norm_base
                         \o WithoutLeadingDotsAndSlashes(path) \o <<")">>
                    ELSE orig
        /\ (\A i \in 1..Len(path) : path[i] # "<") => content = md_out

\* C8 witness: ![a](../y.JPG) has become ![a](<base>y.JPG)
C8_Witness ==
    /\ applied = 1
    /\ orig = MdOpen \o FileJpg \o MdClose
    /\ content = MdOpen \o norm_base \o <<"y",".","J","P","G">> \o MdClose

\* C9: in an img tag with a double-quoted src attribute, the src path is rewritten
\* as the same path is in Markdown syntax, and the rest of the tag is kept as it is,
\* whatever other attributes the tag has.
C9_HtmlSrcAsMarkdown ==
    (applied = 1 /\ IsImgTag(orig)) =>
        content = ImgOpen \o AsInMarkdown(ImgPathOf(orig), norm_base) \o ImgRestOf(orig)

----------------------------------------------------------------------------
(* Properties of get_git_info, process_file and main (Spec)                *)

\* C2: main returns 1 if and only if the locator failed or an input file changed
\* (write mode) or would change (check-only mode); otherwise it returns 0.
C2_ExitStatus ==
    pc = "done" =>
        /\ rc \in {0, 1}
        /\ rc = 1 <=>
             \/ git_result.kind # "tuple"
             \/ IF check_only
                THEN \E k \in Processed : NeedsChangeAt(k)
                ELSE \E k \in Processed : disk[filenames[k]] # disk0[filenames[k]]

\* C3: with no origin remote, main skips the files and returns 0.
C3_NoOriginReturnsZero ==
    (pc = "done" /\ remote = NoRemote) => (rc = 0 /\ disk = disk0)

\* C4: in check-only mode no file on disk changes, whether or not normalization would
\* change it, and the flag process_file returns says whether it would.
C4_CheckOnlyNeverWrites ==
    check_only =>
        /\ disk = disk0
        /\ \A k \in Processed : flags[k] = NeedsChangeAt(k)

\* C4 witness: a check-only run has reported a file that needs normalizing
C4_Witness ==
    /\ check_only
    /\ pc = "done"
    /\ rc = 1
    /\ \E k \in Processed : flags[k] /\ seen[k] = DocRelative
                            /\ disk[filenames[k]] = DocRelative

\* C5: in write mode process_file changes the file on disk only if the normalized
\* content differs from the original, and the content it leaves is then exactly the
\* normalized content, also when the write can fail.  (The claim's other half, that
\* a differing file is always changed, fails as well whenever write_text raises.)
C5_WriteLeavesNormalized ==
    (~check_only /\ Len(flags) >= 1) =>
        LET k      == Len(flags)
            before == seen[k]
            after  == disk[filenames[k]]
        IN  (after # before) =>
                /\ normalize_image_urls(before, base_url) # before
                /\ after = normalize_image_urls(before, base_url)

C10_LocatorReturnsNone ==
    (pc # "git" /\ (remote = NoRemote \/ remote = RemoteGitlab \/ ~has_head))
        => git_result = RetNone

=============================================================================
